---- MODULE Spec2Model ----
(***************************************************************************)
(* Agentic Test Case Generator.                                            *)
(*                                                                         *)
(* Spec     : the React client of frontend/src/App.jsx: its useState       *)
(*            fields, its button handlers split at their await points,     *)
(*            and the settled fetch of each outstanding call.              *)
(* GateSpec : the validation gate that the test-case endpoint runs before  *)
(*            it answers (backend/app/agents/test_case_agent.py, which is  *)
(*            not part of the sources at hand; modelled from the           *)
(*            specification, section 4.2).                                 *)
(* ExportSpec, DownstreamSpec, BusyFairSpec : the same client going on to  *)
(*            its export and automation tabs.                              *)
(* ServerSpec : the stateless controller serving concurrent Refine calls   *)
(*            (specification, sections 4.1 and 5).                         *)
(*                                                                         *)
(* Text is a sequence of characters, an artifact a sequence of item ids,   *)
(* JSON null a one-element sequence that holds no character.               *)
(***************************************************************************)
EXTENDS Integers, Sequences, FiniteSets, TLC

\* ------------------------------------------------------------------ bounds
\* most items in a requirements list or a test-case list
MaxItems == 2
\* most revisions recorded for one session
MaxRevisions == 2
\* most calls of one kind outstanding at once (the busy flags keep it at 1)
MaxInFlight == 2

\* ------------------------------------------------------------------ values
Chars == {" ", "a"}
Null == <<"null">>
NoFile == "null"
Files == {"reqs.md"}

\* the texts the user types: empty, whitespace only, not blank
Texts == {<<>>, <<" ">>, <<"a">>}

ReqId(i) == "REQ-" \o ToString(i)
TcId(i) == "TC-" \o ToString(i)
ReqLists == {[i \in 1..n |-> ReqId(i)] : n \in 0..MaxItems}
TcLists == {[i \in 1..n |-> TcId(i)] : n \in 0..MaxItems}
\* the document text a parse answers with (an answer without one keeps the
\* text shown, which no guard reads)
RawTexts == {"# Sample Requirements"}
ErrorTexts == {"", "Internal Server Error"}

\* String.prototype.trim: whitespace removed from both ends
RECURSIVE trimStart(_)
trimStart(s) ==
    IF s = <<>> THEN s
    ELSE IF Head(s) = " " THEN trimStart(Tail(s)) ELSE s

RECURSIVE trimEnd(_)
trimEnd(s) ==
    IF s = <<>> THEN s
    ELSE IF s[Len(s)] = " " THEN trimEnd(SubSeq(s, 1, Len(s) - 1)) ELSE s

trim(s) == trimEnd(trimStart(s))

\* JavaScript truthiness of a string or an array length
Truthy(s) == s # <<>>

Last(s) == s[Len(s)]
RemoveAt(s, i) == SubSeq(s, 1, i - 1) \o SubSeq(s, i + 1, Len(s))

\* ------------------------------------------------------------------ state
VARIABLES
    file,            \* useState(null)
    rawText,         \* useState("")
    requirements,    \* useState([])
    activeTab,       \* useState(0)
    testCases,       \* useState([])
    status,          \* useState("")
    feedback,        \* useState("")
    reqFeedback,     \* useState("")
    isGenerating,    \* useState(false)
    isParsing,       \* useState(false)
    parseCalls,      \* parseRequirements calls suspended at their fetch
    generateCalls,   \* generateTestCases calls suspended at their fetch
    reqRevisions,    \* history: one entry per setRequirements of this session
    tcRevisions      \* history: one entry per setTestCases of this session

uiVars == <<file, rawText, requirements, activeTab, testCases, status, feedback,
            reqFeedback, isGenerating, isParsing, parseCalls, generateCalls,
            reqRevisions, tcRevisions>>

VARIABLES
    jiraProject,     \* useState("")
    isExporting,     \* useState(false)
    exportCalls,     \* exportToFormat / exportToJira calls suspended at their fetch
    automationCalls  \* generateAutomation calls suspended at their fetch

exportVars == <<jiraProject, isExporting, exportCalls, automationCalls>>

VARIABLES
    gateCall,        \* the Generate or Refine call the gate serves, or NoCall
    gateState,       \* the gate's state (section 4.2)
    gateArtifact,    \* the latest artifact the provider produced for this call
    cycles,          \* Validating <-> Regenerating cycles completed
    produceCalls,    \* provider calls of this call, by capability
    critiqueCalls,
    reviseCalls,
    rejections,      \* critiques of this call that reported deficiencies
    returned         \* what the call returned to its caller, or NoResult

gateVars == <<gateCall, gateState, gateArtifact, cycles, produceCalls, critiqueCalls,
              reviseCalls, rejections, returned>>

VARIABLES
    serverCalls      \* the Refine calls the stateless server is serving

vars == <<uiVars, exportVars, gateVars, serverCalls>>

tabs == 0..5

UIInit ==
    /\ file = NoFile
    /\ rawText = ""
    /\ requirements = <<>>
    /\ activeTab = 0
    /\ testCases = <<>>
    /\ status = ""
    /\ feedback = <<>>
    /\ reqFeedback = <<>>
    /\ isGenerating = FALSE
    /\ isParsing = FALSE
    /\ parseCalls = <<>>
    /\ generateCalls = <<>>
    /\ reqRevisions = <<>>
    /\ tcRevisions = <<>>

\* ------------------------------------------------------------ wire format
RECURSIVE Str(_)
\* a text as the string the request carries
Str(s) == IF s = <<>> THEN "" ELSE Head(s) \o Str(Tail(s))

RECURSIVE JoinItems(_)
JoinItems(items) ==
    IF items = <<>> THEN ""
    ELSE IF Len(items) = 1 THEN "\"" \o Head(items) \o "\""
    ELSE "\"" \o Head(items) \o "\"," \o JoinItems(Tail(items))

\* JSON.stringify of a list of items (each item stands for its object)
JSONstringify(items) == "[" \o JoinItems(items) \o "]"

\* x || y on a string
OrElse(x, y) == IF x # "" THEN x ELSE y

OrEmptyMissing(x) == x

\* data.<list> || []: only a missing field is replaced, [] is truthy
OrEmpty(x) == IF x = Null THEN <<>> ELSE x

\* --------------------------------------------------------------- history
\* the revision a settled call commits: Generate opens the session at
\* version 1, Refine follows the prior revision
Commit(revisions, withFeedback) ==
    IF withFeedback
    THEN Append(revisions,
                [version |-> (IF revisions = <<>> THEN 0 ELSE Last(revisions).version) + 1,
                 by |-> "Refine"])
    ELSE <<[version |-> 1, by |-> "Generate"]>>

\* ---------------------------------------------------------- requirements
\* the multipart body of POST /requirements/parse
ParseFormData(withFeedback) ==
    LET fields == (IF file # NoFile THEN {"file"} ELSE {})
                  \cup (IF withFeedback /\ Truthy(reqFeedback)
                        THEN {"feedback", "existing_requirements"} ELSE {})
    IN  [k \in fields |->
            CASE k = "file" -> file
              [] k = "feedback" -> Str(reqFeedback)
              [] k = "existing_requirements" -> JSONstringify(requirements)]

\* parseRequirements up to its await fetch
parseRequirements(withFeedback) ==
    /\ ~(file = NoFile /\ ~withFeedback)
    /\ Len(parseCalls) < MaxInFlight
    /\ isParsing' = TRUE
    /\ status' = (IF withFeedback THEN "Refining requirements with feedback..."
                                  ELSE "Parsing requirements...")
    /\ parseCalls' = Append(parseCalls,
                            [withFeedback |-> withFeedback,
                             body |-> ParseFormData(withFeedback),
                             rawText |-> rawText,
                             reqFeedback |-> reqFeedback,
                             requirements |-> requirements])
    /\ UNCHANGED <<file, rawText, requirements, activeTab, testCases, feedback,
                   reqFeedback, isGenerating, generateCalls, reqRevisions, tcRevisions,
                   gateVars, exportVars, serverCalls>>

\* what the fetch of /requirements/parse can settle to
ParseResponses ==
    [kind : {"ok"}, raw_text : RawTexts, requirements : ReqLists \cup {Null}]
    \cup [kind : {"httpError"}, text : ErrorTexts]
    \cup [kind : {"throw"}, message : {"Failed to fetch"}]

ParseFailed(res) == res.kind # "ok"

\* the message of the Error the try block throws
ParseErrorMessage(res) ==
    IF res.kind = "httpError" THEN OrElse(res.text, "Failed to parse requirements")
    ELSE res.message

\* parseRequirements from its await fetch to the end of finally
parseRequirementsSettle(i, res) ==
    /\ i \in 1..Len(parseCalls)
    /\ LET call == parseCalls[i]
       IN  /\ IF res.kind = "ok"
              THEN /\ rawText' = OrElse(res.raw_text, call.rawText)
                   /\ requirements' = OrEmpty(res.requirements)
                   /\ status' = (IF call.withFeedback THEN "Requirements refined."
                                                      ELSE "Parsed.")
                   /\ reqFeedback' = (IF call.withFeedback THEN <<>> ELSE reqFeedback)
                   /\ reqRevisions' = Commit(reqRevisions, call.withFeedback)
              ELSE /\ status' = "Parse failed: " \o ParseErrorMessage(res)
                   /\ UNCHANGED <<rawText, requirements, reqFeedback, reqRevisions>>
           /\ isParsing' = FALSE
           /\ parseCalls' = RemoveAt(parseCalls, i)
    /\ UNCHANGED <<file, activeTab, testCases, feedback, isGenerating,
                   generateCalls, tcRevisions,
                   gateVars, exportVars, serverCalls>>

\* <input type="file" onChange>
setFile(f) ==
    /\ activeTab = 0
    /\ file' = f
    /\ UNCHANGED <<rawText, requirements, activeTab, testCases, status, feedback,
                   reqFeedback, isGenerating, isParsing, parseCalls, generateCalls,
                   reqRevisions, tcRevisions,
                   gateVars, exportVars, serverCalls>>

\* the Parse Requirements button
ParseDisabled == file = NoFile \/ isParsing

ClickParse ==
    /\ activeTab = 0
    /\ ~ParseDisabled
    /\ parseRequirements(FALSE)

\* the requirements feedback section is rendered
ReqFeedbackShown == activeTab = 0 /\ Len(requirements) > 0

\* <textarea onChange> of the requirements feedback section
setReqFeedback(v) ==
    /\ ReqFeedbackShown
    /\ reqFeedback' = v
    /\ UNCHANGED <<file, rawText, requirements, activeTab, testCases, status, feedback,
                   isGenerating, isParsing, parseCalls, generateCalls,
                   reqRevisions, tcRevisions,
                   gateVars, exportVars, serverCalls>>

\* the Implement Changes button of the requirements feedback section
RefineReqDisabled == ~Truthy(trim(reqFeedback)) \/ isParsing

ClickRefineRequirements ==
    /\ ReqFeedbackShown
    /\ ~RefineReqDisabled
    /\ Len(reqRevisions) < MaxRevisions
    /\ parseRequirements(TRUE)

\* ------------------------------------------------------------ test cases
\* JSON.stringify(payload) of POST /testcases/generate; the template and the
\* context links keep their initial values (tabs 1 and 2 only edit them)
GeneratePayload(withFeedback) ==
    [requirements |-> JSONstringify(requirements),
     template |-> "{\"name\":\"default\",\"format\":\"table\"}",
     context |-> "{\"requirements\":" \o JSONstringify(requirements)
                 \o ",\"notes\":\"Generated via UI\"}",
     feedback |-> IF withFeedback /\ Truthy(feedback)
                  THEN "\"" \o Str(feedback) \o "\"" ELSE "null"]

\* generateTestCases up to its await fetch
generateTestCases(withFeedback) ==
    /\ Len(generateCalls) < MaxInFlight
    /\ isGenerating' = TRUE
    /\ status' = (IF withFeedback THEN "Refining test cases with feedback..."
                                  ELSE "Generating test cases...")
    /\ generateCalls' = Append(generateCalls,
                               [withFeedback |-> withFeedback,
                                body |-> GeneratePayload(withFeedback),
                                feedback |-> feedback,
                                testCases |-> testCases])
    /\ UNCHANGED <<file, rawText, requirements, activeTab, testCases, feedback,
                   reqFeedback, isParsing, parseCalls, reqRevisions, tcRevisions,
                   gateVars, exportVars, serverCalls>>

\* what the fetch of /testcases/generate can settle to: a JSON body under an
\* OK or a non-OK status (an error body has no test_cases), or a rejection
\* (network failure, timeout, a body that is no JSON)
GenerateResponses ==
    [kind : {"json"}, ok : {TRUE}, test_cases : TcLists \cup {Null}]
    \cup [kind : {"json"}, ok : {FALSE}, test_cases : {Null}]
    \cup [kind : {"throw"}, ok : {FALSE}, test_cases : {Null}]

GenerateFailed(res) == res.kind = "throw" \/ ~res.ok

\* generateTestCases from its await fetch to the end of finally
generateTestCasesSettle(i, res) ==
    /\ i \in 1..Len(generateCalls)
    /\ LET call == generateCalls[i]
       IN  /\ IF res.kind = "json"
              THEN /\ testCases' = OrEmpty(res.test_cases)
                   /\ status' = (IF call.withFeedback THEN "Test cases refined."
                                                      ELSE "Generated.")
                   /\ feedback' = (IF call.withFeedback THEN <<>> ELSE feedback)
                   /\ tcRevisions' = Commit(tcRevisions, call.withFeedback)
              ELSE UNCHANGED <<testCases, status, feedback, tcRevisions>>
           /\ isGenerating' = FALSE
           /\ generateCalls' = RemoveAt(generateCalls, i)
    /\ UNCHANGED <<file, rawText, requirements, activeTab, reqFeedback, isParsing,
                   parseCalls, reqRevisions,
                   gateVars, exportVars, serverCalls>>

GenerateDisabledNotBusy == Len(requirements) = 0

\* the Generate Test Cases button
GenerateDisabled == Len(requirements) = 0 \/ isGenerating

ClickGenerate ==
    /\ activeTab = 3
    /\ ~GenerateDisabled
    /\ generateTestCases(FALSE)

FeedbackShownAlways == activeTab = 3

\* the test-case feedback section is rendered
FeedbackShown == activeTab = 3 /\ Len(testCases) > 0

\* <textarea onChange> of the test-case feedback section
setFeedback(v) ==
    /\ FeedbackShown
    /\ feedback' = v
    /\ UNCHANGED <<file, rawText, requirements, activeTab, testCases, status,
                   reqFeedback, isGenerating, isParsing, parseCalls, generateCalls,
                   reqRevisions, tcRevisions,
                   gateVars, exportVars, serverCalls>>

RefineDisabledNoTrim == ~Truthy(feedback) \/ isGenerating
RefineDisabledWhileParsing == ~Truthy(trim(feedback)) \/ isGenerating \/ isParsing

\* the Implement Changes button of the test-case feedback section
RefineDisabled == ~Truthy(trim(feedback)) \/ isGenerating

ClickRefineTestCases ==
    /\ FeedbackShown
    /\ ~RefineDisabled
    /\ Len(tcRevisions) < MaxRevisions
    /\ generateTestCases(TRUE)

\* ------------------------------------------------------------------ tabs
Min(a, b) == IF a < b THEN a ELSE b
Max(a, b) == IF a > b THEN a ELSE b

setActiveTab(t) ==
    /\ activeTab' = t
    /\ UNCHANGED <<file, rawText, requirements, testCases, status, feedback,
                   reqFeedback, isGenerating, isParsing, parseCalls, generateCalls,
                   reqRevisions, tcRevisions,
                   gateVars, exportVars, serverCalls>>

\* the Next button is rendered on tabs 0..4, disabled on 3 and 4 without test cases
goNext ==
    /\ activeTab \in 0..4
    /\ activeTab \in {3, 4} => Len(testCases) # 0
    /\ setActiveTab(Min(activeTab + 1, 5))

\* the Back button is rendered on tabs 1..5
goPrev ==
    /\ activeTab \in 1..5
    /\ setActiveTab(Max(activeTab - 1, 0))

UINext ==
    \/ \E f \in Files \cup {NoFile} : setFile(f)
    \/ ClickParse
    \/ \E v \in Texts : setReqFeedback(v)
    \/ ClickRefineRequirements
    \/ \E i \in 1..MaxInFlight, res \in ParseResponses : parseRequirementsSettle(i, res)
    \/ ClickGenerate
    \/ \E v \in Texts : setFeedback(v)
    \/ ClickRefineTestCases
    \/ \E i \in 1..MaxInFlight, res \in GenerateResponses : generateTestCasesSettle(i, res)
    \/ \E t \in tabs : setActiveTab(t)
    \/ goNext
    \/ goPrev

\* ---------------------------------------------------------------- export
ExportInit ==
    /\ jiraProject = ""
    /\ isExporting = FALSE
    /\ exportCalls = <<>>
    /\ automationCalls = <<>>

Formats == {"csv", "excel", "json"}
JiraProjects == {"", "QA"}

\* format.toUpperCase()
toUpperCase(format) ==
    CASE format = "csv" -> "CSV"
      [] format = "excel" -> "EXCEL"
      [] format = "json" -> "JSON"

\* a handler created once with the first render's state (its payload would
\* hold the initial, empty list)
ExportPayloadStaleClosure == [test_cases |-> JSONstringify(<<>>)]

\* JSON.stringify(payload) of POST /export/{csv|excel|json}
ExportPayload == [test_cases |-> JSONstringify(testCases)]

\* exportToFormat up to its await fetch
exportToFormat(format) ==
    /\ Len(exportCalls) < MaxInFlight
    /\ isExporting' = TRUE
    /\ status' = "Exporting to " \o toUpperCase(format) \o "..."
    /\ exportCalls' = Append(exportCalls, [target |-> format, body |-> ExportPayload])
    /\ UNCHANGED <<file, rawText, requirements, activeTab, testCases, feedback,
                   reqFeedback, isGenerating, isParsing, parseCalls, generateCalls,
                   reqRevisions, tcRevisions, jiraProject, automationCalls,
                   gateVars, serverCalls>>

\* what the fetch of /export/{format} can settle to
ExportResponses ==
    [kind : {"blob"}, ok : {TRUE, FALSE}]
    \cup [kind : {"throw"}, ok : {FALSE}, message : {"Failed to fetch"}]

ExportFailed(res) == res.kind = "throw" \/ ~res.ok

\* the message of the Error the try block throws
ExportErrorMessage(res) == IF res.kind = "blob" THEN "Export failed" ELSE res.message

\* exportToFormat from its await fetch to the end of finally (the download
\* of the blob changes no state; the status' leading check mark is left out)
exportToFormatSettle(i, res) ==
    /\ i \in 1..Len(exportCalls)
    /\ exportCalls[i].target \in Formats
    /\ status' = (IF ExportFailed(res)
                  THEN "Export failed: " \o ExportErrorMessage(res)
                  ELSE "Exported to " \o toUpperCase(exportCalls[i].target)
                       \o " successfully")
    /\ isExporting' = FALSE
    /\ exportCalls' = RemoveAt(exportCalls, i)
    /\ UNCHANGED <<file, rawText, requirements, activeTab, testCases, feedback,
                   reqFeedback, isGenerating, isParsing, parseCalls, generateCalls,
                   reqRevisions, tcRevisions, jiraProject, automationCalls,
                   gateVars, serverCalls>>

ExportDisabledOnlyBusy == isExporting

\* the CSV, Excel and JSON buttons
ExportDisabled == Len(testCases) = 0 \/ isExporting

ClickExport(format) ==
    /\ activeTab = 4
    /\ ~ExportDisabled
    /\ exportToFormat(format)

\* <input onChange> of the JIRA project key
setJiraProject(v) ==
    /\ activeTab = 4
    /\ jiraProject' = v
    /\ UNCHANGED <<uiVars, isExporting, exportCalls, automationCalls, gateVars, serverCalls>>

\* JSON.stringify(payload) of POST /export/jira (the issue type keeps its
\* initial value)
JiraPayload ==
    [project_key |-> jiraProject, issue_type |-> "Test",
     test_cases |-> JSONstringify(testCases)]

\* exportToJira up to its await fetch
exportToJira ==
    /\ Len(exportCalls) < MaxInFlight
    /\ isExporting' = TRUE
    /\ status' = "Exporting to JIRA..."
    /\ exportCalls' = Append(exportCalls, [target |-> "jira", body |-> JiraPayload])
    /\ UNCHANGED <<file, rawText, requirements, activeTab, testCases, feedback,
                   reqFeedback, isGenerating, isParsing, parseCalls, generateCalls,
                   reqRevisions, tcRevisions, jiraProject, automationCalls,
                   gateVars, serverCalls>>

\* what the fetch of /export/jira can settle to: the stub's answer, an error
\* body without status and message, or a rejection
JiraResponses ==
    [kind : {"json"}, status : {"not_configured"}, message : {"JIRA is not configured"}]
    \cup [kind : {"json"}, status : {"undefined"}, message : {"undefined"}]
    \cup [kind : {"throw"}, message : {"Failed to fetch"}]

\* exportToJira with the flag cleared after the try block instead of in finally
exportToJiraSettleNoFinally(i, res) ==
    /\ i \in 1..Len(exportCalls)
    /\ exportCalls[i].target = "jira"
    /\ IF res.kind = "json"
       THEN status' = res.status \o ": " \o res.message /\ isExporting' = FALSE
       ELSE UNCHANGED <<status, isExporting>>
    /\ exportCalls' = RemoveAt(exportCalls, i)
    /\ UNCHANGED <<file, rawText, requirements, activeTab, testCases, feedback,
                   reqFeedback, isGenerating, isParsing, parseCalls, generateCalls,
                   reqRevisions, tcRevisions, jiraProject, automationCalls,
                   gateVars, serverCalls>>

\* exportToJira from its await fetch to the end of finally
exportToJiraSettle(i, res) ==
    /\ i \in 1..Len(exportCalls)
    /\ exportCalls[i].target = "jira"
    /\ IF res.kind = "json"
       THEN status' = res.status \o ": " \o res.message
       ELSE UNCHANGED status
    /\ isExporting' = FALSE
    /\ exportCalls' = RemoveAt(exportCalls, i)
    /\ UNCHANGED <<file, rawText, requirements, activeTab, testCases, feedback,
                   reqFeedback, isGenerating, isParsing, parseCalls, generateCalls,
                   reqRevisions, tcRevisions, jiraProject, automationCalls,
                   gateVars, serverCalls>>

\* the Export to JIRA button
JiraDisabled == Len(testCases) = 0 \/ jiraProject = "" \/ isExporting

ClickExportJira ==
    /\ activeTab = 4
    /\ ~JiraDisabled
    /\ exportToJira

\* ------------------------------------------------------------ automation
\* JSON.stringify(payload) of POST /automation/playwright (appLink keeps its
\* initial value, so the target is null)
AutomationPayload == [test_cases |-> JSONstringify(testCases), target_base_url |-> "null"]

\* generateAutomation up to its await fetch
generateAutomation ==
    /\ Len(automationCalls) < MaxInFlight
    /\ status' = "Generating Playwright POM..."
    /\ automationCalls' = Append(automationCalls, [body |-> AutomationPayload])
    /\ UNCHANGED <<file, rawText, requirements, activeTab, testCases, feedback,
                   reqFeedback, isGenerating, isParsing, parseCalls, generateCalls,
                   reqRevisions, tcRevisions, jiraProject, isExporting, exportCalls,
                   gateVars, serverCalls>>

AutomationResponses ==
    [kind : {"json"}, status : {"stub"}, notes : {"Playwright POM generation is a stub"}]
    \cup [kind : {"throw"}, message : {"Failed to fetch"}]

\* generateAutomation from its await fetch to its end
generateAutomationSettle(i, res) ==
    /\ i \in 1..Len(automationCalls)
    /\ IF res.kind = "json"
       THEN status' = res.status \o ": " \o res.notes
       ELSE UNCHANGED status
    /\ automationCalls' = RemoveAt(automationCalls, i)
    /\ UNCHANGED <<file, rawText, requirements, activeTab, testCases, feedback,
                   reqFeedback, isGenerating, isParsing, parseCalls, generateCalls,
                   reqRevisions, tcRevisions, jiraProject, isExporting, exportCalls,
                   gateVars, serverCalls>>

\* the Generate Automation Stubs button
AutomationDisabled == Len(testCases) = 0

ClickGenerateAutomation ==
    /\ activeTab = 5
    /\ ~AutomationDisabled
    /\ generateAutomation

\* ------------------------------------------------------- validation gate
\* The gate of section 4.2, one provider call per step.  A cycle is one
\* critique that reports deficiencies followed by one revise; after
\* iteration_cap cycles the gate gives up, so that one call makes at most
\* 1 + 2 * iteration_cap provider calls (section 5).
iteration_cap == 3

NoCall == [kind |-> "none"]
NoResult == [tag |-> "none"]
PipelinesSingleCall ==
    [requirements |-> <<"InitialExtractorAgent">>,
     testcases |-> <<"TestCaseGeneratorAgent", "ValidationLoop">>]

\* the agent pipeline behind each artifact kind: a first-pass agent followed
\* by a loop of a reviewing and a refining agent
Pipelines ==
    [requirements |-> <<"InitialExtractorAgent", "RefinementLoop">>,
     testcases |-> <<"TestCaseGeneratorAgent", "ValidationLoop">>]
ArtifactKinds == DOMAIN Pipelines

\* the first pass of this kind is followed by a critique / revise loop
HasLoop(artifactKind) == Len(Pipelines[artifactKind]) > 1

\* the artifacts of a kind
KindLists(artifactKind) == IF artifactKind = "requirements" THEN ReqLists ELSE TcLists

GateCalls ==
    [kind : {"Generate"}, artifactKind : ArtifactKinds, prior : {<<>>}, feedback : {<<>>}]
    \cup [kind : {"Refine"}, artifactKind : {"testcases"}, prior : TcLists \ {<<>>},
          feedback : {<<"a">>}]
    \cup [kind : {"Refine"}, artifactKind : {"requirements"}, prior : ReqLists \ {<<>>},
          feedback : {<<"a">>}]
Deficiencies == {<<"missing negative test case">>}
Verdicts ==
    {[approved |-> TRUE, deficiencies |-> <<>>]}
    \cup [approved : {FALSE}, deficiencies : Deficiencies]
ProviderErrors == {"ProviderError", "ProviderTimeoutError", "ParseFailure"}
\* what a provider call answers: a structured artifact or verdict, or an error
ArtifactOutcomes ==
    [ok : {TRUE}, artifact : TcLists \cup ReqLists]
    \cup [ok : {FALSE}, error : ProviderErrors]
CritiqueOutcomes ==
    [ok : {TRUE}, verdict : Verdicts] \cup [ok : {FALSE}, error : ProviderErrors]
Terminal == {"Approved", "MaxIterationsExceeded"}

GateInit ==
    /\ gateCall = NoCall
    /\ gateState = "Idle"
    /\ gateArtifact = <<>>
    /\ cycles = 0
    /\ produceCalls = 0
    /\ critiqueCalls = 0
    /\ reviseCalls = 0
    /\ rejections = 0
    /\ returned = NoResult

GateResultEager(state, artifact) == [tag |-> state, artifact |-> artifact]

\* what the caller is given once the gate stands in `state`: the artifact
\* with its tag in a terminal state, nothing before
GateResult(state, artifact) ==
    IF state \in Terminal THEN [tag |-> state, artifact |-> artifact] ELSE NoResult

\* a provider call fails: the call returns a typed error and no artifact
GateFail(err) ==
    /\ gateState' = "Failed"
    /\ returned' = [tag |-> "error", error |-> err]

\* Generate / Refine for the test-case kind: the first pass is one produce call
produce(call, out) ==
    /\ gateState = "Idle"
    /\ gateCall' = call
    /\ produceCalls' = 1
    /\ cycles' = 0
    /\ critiqueCalls' = 0
    /\ reviseCalls' = 0
    /\ rejections' = 0
    /\ IF ~out.ok
       THEN GateFail(out.error) /\ gateArtifact' = <<>>
       ELSE /\ out.artifact \in KindLists(call.artifactKind)
            /\ gateArtifact' = out.artifact
            /\ IF HasLoop(call.artifactKind)
               THEN /\ gateState' = "Generated"
                    /\ returned' = NoResult
               ELSE /\ gateState' = "Approved"
                    /\ returned' = GateResult("Approved", out.artifact)
    /\ UNCHANGED <<uiVars, exportVars, serverCalls>>

\* Generated -> Validating, and back to Validating after a regeneration
Validate ==
    /\ gateState = "Generated"
    /\ gateState' = "Validating"
    /\ UNCHANGED <<gateCall, gateArtifact, cycles, produceCalls, critiqueCalls,
                   reviseCalls, rejections, returned, uiVars, exportVars, serverCalls>>

\* the Validator step: approval, or a list of deficiencies
critique(out) ==
    /\ gateState = "Validating"
    /\ critiqueCalls' = critiqueCalls + 1
    /\ IF ~out.ok
       THEN GateFail(out.error) /\ UNCHANGED rejections
       ELSE IF out.verdict.approved
       THEN /\ gateState' = "Approved"
            /\ returned' = GateResult("Approved", gateArtifact)
            /\ UNCHANGED rejections
       ELSE /\ gateState' = "NeedsRevision"
            /\ returned' = GateResult("NeedsRevision", gateArtifact)
            /\ rejections' = rejections + 1
    /\ UNCHANGED <<gateCall, gateArtifact, cycles, produceCalls, reviseCalls, uiVars, exportVars, serverCalls>>

\* NeedsRevision -> Regenerating
Regenerate ==
    /\ gateState = "NeedsRevision"
    /\ gateState' = "Regenerating"
    /\ UNCHANGED <<gateCall, gateArtifact, cycles, produceCalls, critiqueCalls,
                   reviseCalls, rejections, returned, uiVars, exportVars, serverCalls>>

AfterCycleOffByOne(n) == IF n > iteration_cap THEN "MaxIterationsExceeded" ELSE "Validating"

\* the gate's state once cycle number n is complete
AfterCycle(n) == IF n >= iteration_cap THEN "MaxIterationsExceeded" ELSE "Validating"

\* a Refiner step that regenerates through produce
reviseByProduce(out) ==
    /\ gateState = "Regenerating"
    /\ produceCalls' = produceCalls + 1
    /\ IF ~out.ok
       THEN GateFail(out.error) /\ UNCHANGED <<gateArtifact, cycles>>
       ELSE /\ out.artifact \in KindLists(gateCall.artifactKind)
            /\ gateArtifact' = out.artifact
            /\ cycles' = cycles + 1
            /\ gateState' = AfterCycle(cycles + 1)
            /\ returned' = GateResult(AfterCycle(cycles + 1), out.artifact)
    /\ UNCHANGED <<gateCall, reviseCalls, critiqueCalls, rejections, uiVars, exportVars, serverCalls>>

\* the Refiner step: the artifact regenerated against the deficiencies
revise(out) ==
    /\ gateState = "Regenerating"
    /\ reviseCalls' = reviseCalls + 1
    /\ IF ~out.ok
       THEN GateFail(out.error) /\ UNCHANGED <<gateArtifact, cycles>>
       ELSE /\ out.artifact \in KindLists(gateCall.artifactKind)
            /\ gateArtifact' = out.artifact
            /\ cycles' = cycles + 1
            /\ gateState' = AfterCycle(cycles + 1)
            /\ returned' = GateResult(AfterCycle(cycles + 1), out.artifact)
    /\ UNCHANGED <<gateCall, produceCalls, critiqueCalls, rejections, uiVars, exportVars, serverCalls>>

\* the call is over; the server keeps nothing of it
GateDone ==
    /\ gateState \in Terminal \cup {"Failed"}
    /\ gateState' = "Idle"
    /\ gateCall' = NoCall
    /\ gateArtifact' = <<>>
    /\ returned' = NoResult
    /\ UNCHANGED <<cycles, produceCalls, critiqueCalls, reviseCalls, rejections, uiVars, exportVars, serverCalls>>

GateNext ==
    \/ \E call \in GateCalls, out \in ArtifactOutcomes : produce(call, out)
    \/ Validate
    \/ \E out \in CritiqueOutcomes : critique(out)
    \/ Regenerate
    \/ \E out \in ArtifactOutcomes : revise(out)
    \/ GateDone

\* ------------------------------------------------------ stateless server
\* The controller of section 4.1 serving Refine calls of the test-case kind
\* for callers that run concurrently (section 5): all a call works on is what
\* its own request carried.
Callers == {"first", "second"}
IdleCall == [state |-> "idle"]
\* the revision a Refine request carries
PriorRevisions == [version : 1..MaxRevisions, payload : TcLists \ {<<>>}]

ServerInit == serverCalls = [c \in Callers |-> IdleCall]

\* the highest version among the calls the server is serving
RECURSIVE MaxVersion(_)
MaxVersion(callers) ==
    IF callers = {} THEN 0
    ELSE LET c == CHOOSE x \in callers : TRUE
             own == IF serverCalls[c].state = "done" THEN serverCalls[c].result.version
                    ELSE IF serverCalls[c].state = "idle" THEN 0
                    ELSE serverCalls[c].prior.version
             rest == MaxVersion(callers \ {c})
         IN  IF own > rest THEN own ELSE rest

\* a server that numbers revisions from a session it keeps
NextVersionFromSessionStore(prior) == MaxVersion(Callers) + 1

\* version = prior.version + 1
NextVersion(prior) == prior.version + 1

\* Refine(priorArtifact, feedback, context) is received
ServerRefine(c, prior, text) ==
    /\ serverCalls[c].state = "idle"
    /\ Truthy(trim(text))
    /\ serverCalls' = [serverCalls EXCEPT ![c] =
                           [state |-> "running", prior |-> prior, feedback |-> text]]
    /\ UNCHANGED <<uiVars, exportVars, gateVars>>

\* the (gated) provider chain of the call ends: a new revision or a typed error
ServerAnswer(c, out) ==
    /\ serverCalls[c].state = "running"
    /\ LET call == serverCalls[c]
       IN  serverCalls' = [serverCalls EXCEPT ![c] =
               IF out.ok
               THEN [state |-> "done", prior |-> call.prior, feedback |-> call.feedback,
                     answer |-> out.artifact,
                     result |-> [version |-> NextVersion(call.prior),
                                 payload |-> out.artifact]]
               ELSE [state |-> "failed", prior |-> call.prior, feedback |-> call.feedback,
                     error |-> out.error]]
    /\ UNCHANGED <<uiVars, exportVars, gateVars>>

\* the response is sent; the server keeps nothing of the call
ServerReturn(c) ==
    /\ serverCalls[c].state \in {"done", "failed"}
    /\ serverCalls' = [serverCalls EXCEPT ![c] = IdleCall]
    /\ UNCHANGED <<uiVars, exportVars, gateVars>>

ServerNext ==
    \/ \E c \in Callers, prior \in PriorRevisions : ServerRefine(c, prior, <<"a">>)
    \/ \E c \in Callers, out \in [ok : {TRUE}, artifact : TcLists]
                                  \cup [ok : {FALSE}, error : ProviderErrors] :
          ServerAnswer(c, out)
    \/ \E c \in Callers : ServerReturn(c)


Init == UIInit /\ ExportInit /\ GateInit /\ ServerInit

Next == UINext

Spec == Init /\ [][Next]_vars

\* the feedback typed in the sessions that go on to export
ExportTexts == {<<"a">>}

\* the session from the upload to the export tab (the requirements feedback
\* round and the blank feedback texts are left to Spec)
ExportNext ==
    \/ \E f \in Files : setFile(f)
    \/ ClickParse
    \/ \E i \in 1..MaxInFlight, res \in ParseResponses : parseRequirementsSettle(i, res)
    \/ ClickGenerate
    \/ \E v \in ExportTexts : setFeedback(v)
    \/ ClickRefineTestCases
    \/ \E i \in 1..MaxInFlight, res \in GenerateResponses : generateTestCasesSettle(i, res)
    \/ \E t \in tabs : setActiveTab(t)
    \/ goNext
    \/ goPrev
    \/ \E format \in Formats : ClickExport(format)
    \/ \E i \in 1..MaxInFlight, res \in ExportResponses : exportToFormatSettle(i, res)
    \/ \E v \in JiraProjects : setJiraProject(v)
    \/ ClickExportJira
    \/ \E i \in 1..MaxInFlight, res \in JiraResponses : exportToJiraSettle(i, res)

ExportSpec == Init /\ [][ExportNext]_vars

\* every request settles: it is answered, or it fails (rejected fetch, time-out)
ParseSettles == \E i \in 1..MaxInFlight, res \in ParseResponses : parseRequirementsSettle(i, res)
GenerateSettles ==
    \E i \in 1..MaxInFlight, res \in GenerateResponses : generateTestCasesSettle(i, res)
ExportSettles ==
    \/ \E i \in 1..MaxInFlight, res \in ExportResponses : exportToFormatSettle(i, res)
    \/ \E i \in 1..MaxInFlight, res \in JiraResponses : exportToJiraSettle(i, res)

\* the first-pass session: every handler that raises a busy flag (the
\* feedback rounds go through the same two handlers)
BusyNext ==
    \/ \E f \in Files : setFile(f)
    \/ ClickParse
    \/ ParseSettles
    \/ ClickGenerate
    \/ GenerateSettles
    \/ \E t \in tabs : setActiveTab(t)
    \/ goNext
    \/ goPrev
    \/ \E format \in Formats : ClickExport(format)
    \/ \E v \in JiraProjects : setJiraProject(v)
    \/ ClickExportJira
    \/ ExportSettles

BusyFairSpec ==
    /\ Init /\ [][BusyNext]_vars
    /\ WF_vars(ParseSettles) /\ WF_vars(GenerateSettles) /\ WF_vars(ExportSettles)

\* the same session going on to the automation tab
DownstreamNext ==
    \/ ExportNext
    \/ ClickGenerateAutomation
    \/ \E i \in 1..MaxInFlight, res \in AutomationResponses : generateAutomationSettle(i, res)

DownstreamSpec == Init /\ [][DownstreamNext]_vars

GateSpec == Init /\ [][GateNext]_vars

\* every provider call answers or times out, so the gate takes its next step
GateFairSpec == GateSpec /\ WF_vars(GateNext)

ServerSpec == Init /\ [][ServerNext]_vars

\* ================================================================ claims
IsBlank(text) == ~Truthy(trim(text))

\* the test-case artifacts the client holds (a single useState slot)
HeldTestCases == {testCases}
\* the requirements artifacts the client holds
HeldRequirements == {requirements}

\* C1: a refine with empty or whitespace-only feedback never sends a request
\* and never replaces the held artifact: every refine call that is issued, or
\* outstanding, was issued with feedback that is not blank, and the held
\* requirements and test cases change only when an outstanding call settles.
C1_BlankFeedbackNeverRefines ==
    [][/\ \A i \in 1..Len(generateCalls') :
            generateCalls'[i].withFeedback => ~IsBlank(generateCalls'[i].feedback)
       /\ \A i \in 1..Len(parseCalls') :
            parseCalls'[i].withFeedback => ~IsBlank(parseCalls'[i].reqFeedback)
       /\ IsBlank(feedback) /\ Len(generateCalls') > Len(generateCalls)
            => ~Last(generateCalls').withFeedback
       /\ IsBlank(reqFeedback) /\ Len(parseCalls') > Len(parseCalls)
            => ~Last(parseCalls').withFeedback
       /\ testCases' # testCases => Len(generateCalls') < Len(generateCalls)
       /\ requirements' # requirements => Len(parseCalls') < Len(parseCalls)]_vars

\* whitespace-only feedback typed into both feedback sections of a session
\* whose artifacts are held and whose refine buttons are therefore disabled
C1_Witness ==
    /\ FeedbackShown
    /\ feedback = <<" ">>
    /\ reqFeedback = <<" ">>
    /\ RefineDisabled
    /\ ~isGenerating
    /\ ~isParsing
    /\ Len(tcRevisions) = 1
    /\ Len(requirements) > 0

\* C2: every refine request carries the entire current artifact of the kind
\* it refines: a requirements refine the held requirements list, a test-case
\* refine the held test-case list, in some field of its body.
C2_RefineCarriesArtifact ==
    /\ \A i \in 1..Len(parseCalls) :
          LET call == parseCalls[i]
          IN  call.withFeedback =>
                \E k \in DOMAIN call.body : call.body[k] = JSONstringify(call.requirements)
    /\ \A i \in 1..Len(generateCalls) :
          LET call == generateCalls[i]
          IN  call.withFeedback =>
                \E k \in DOMAIN call.body : call.body[k] = JSONstringify(call.testCases)

\* C3: a call that fails (time-out, rejected fetch, non-OK answer) leaves the
\* held requirements list and test-case list as they were before the call.
C3_FailedCallKeepsArtifact ==
    [][/\ \A i \in 1..MaxInFlight, res \in GenerateResponses :
            GenerateFailed(res) /\ generateTestCasesSettle(i, res)
                => testCases' = testCases
       /\ \A i \in 1..MaxInFlight, res \in ParseResponses :
            ParseFailed(res) /\ parseRequirementsSettle(i, res)
                => requirements' = requirements]_vars

\* the statuses that tell the user of a failure
ErrorStatuses ==
    {"Parse failed: " \o ParseErrorMessage(res) : res \in {r \in ParseResponses : ParseFailed(r)}}

\* C4: every Generate or Refine call ends with an artifact or with an error
\* message: when a call fails, the status the user reads afterwards is an
\* error message, never a success message and never the progress message of
\* the call still standing.
C4_FailedCallReportsError ==
    [][/\ \A i \in 1..MaxInFlight, res \in GenerateResponses :
            GenerateFailed(res) /\ generateTestCasesSettle(i, res)
                => status' \in ErrorStatuses
       /\ \A i \in 1..MaxInFlight, res \in ParseResponses :
            ParseFailed(res) /\ parseRequirementsSettle(i, res)
                => status' \in ErrorStatuses]_vars

\* C5: the gate never performs more than iteration_cap regeneration cycles;
\* a Validator that only reports deficiencies is asked iteration_cap times,
\* after which the gate stands in MaxIterationsExceeded, having revised
\* exactly iteration_cap times, and returns the artifact under that tag;
\* a call that reached the gate always ends (approved, given up or failed).
C5_GateBoundedInv ==
    /\ cycles <= iteration_cap
    /\ reviseCalls <= iteration_cap
    /\ rejections <= iteration_cap
    /\ gateState = "Validating" => rejections < iteration_cap
    /\ gateState = "MaxIterationsExceeded" =>
          /\ cycles = iteration_cap
          /\ reviseCalls = iteration_cap
          /\ rejections = iteration_cap
          /\ critiqueCalls = iteration_cap
          /\ returned = [tag |-> "MaxIterationsExceeded", artifact |-> gateArtifact]
    /\ (gateState \in {"Validating", "Generated"} \cup Terminal
        /\ rejections = iteration_cap) => gateState = "MaxIterationsExceeded"

C6_CallsBeforeApproval ==
    gateState = "Approved" =>
        /\ rejections < iteration_cap
        /\ produceCalls = 1
        /\ reviseCalls = rejections
        /\ produceCalls + reviseCalls = rejections + 1
        /\ critiqueCalls = rejections + 1
        /\ cycles = rejections

\* approved after one rejection: two produce/revise calls
C6_Witness ==
    /\ gateState = "Approved"
    /\ rejections = 1
    /\ produceCalls + reviseCalls = 2

\* C10: the artifact a test-case Generate/Refine returns is Approved or
\* MaxIterationsExceeded and is the gate's latest artifact; while the gate is
\* in an intermediate state nothing has been returned.
C10_OnlyFinalArtifactReturned ==
    /\ returned.tag \notin {"none", "error"} =>
          /\ returned.tag \in Terminal
          /\ gateState = returned.tag
          /\ returned.artifact = gateArtifact
    /\ gateState \in {"Generated", "Validating", "NeedsRevision", "Regenerating"} =>
          returned = NoResult
    /\ gateState \in Terminal => returned.tag = gateState

\* an artifact returned as approved after the gate went through a revision
C10_Witness ==
    /\ returned.tag = "Approved"
    /\ reviseCalls = 2
    /\ returned.artifact # <<>>

RevisionsWellFormed(revisions) ==
    \A i \in 1..Len(revisions) :
        /\ revisions[i].version = i
        /\ revisions[i].by = "Generate" <=> i = 1

Answered(list) == IF list = Null THEN <<>> ELSE list

RefineTestCasesAccepted == FeedbackShown /\ ~RefineDisabled
RefineRequirementsAccepted == ReqFeedbackShown /\ ~RefineReqDisabled

\* C9 as stated: after any completed rounds of a session, with no call of
\* the kind outstanding, a Refine with feedback that is not blank is accepted.
C9_RefineAlwaysAccepted ==
    /\ (Len(tcRevisions) >= 1 /\ generateCalls = <<>>
        /\ activeTab = 3 /\ ~IsBlank(feedback)) => RefineTestCasesAccepted
    /\ (Len(reqRevisions) >= 1 /\ parseCalls = <<>>
        /\ activeTab = 0 /\ ~IsBlank(reqFeedback)) => RefineRequirementsAccepted

\* C9 as amended: after any completed rounds that leave a held artifact with
\* at least one item, with no call of the kind outstanding, a Refine with
\* feedback that is not blank is accepted; no count of rounds ends the loop.
C9_RefineAcceptedWhileHeld ==
    /\ (Len(tcRevisions) >= 1 /\ generateCalls = <<>> /\ Len(testCases) > 0
        /\ activeTab = 3 /\ ~IsBlank(feedback)) => RefineTestCasesAccepted
    /\ (Len(reqRevisions) >= 1 /\ parseCalls = <<>> /\ Len(requirements) > 0
        /\ activeTab = 0 /\ ~IsBlank(reqFeedback)) => RefineRequirementsAccepted

\* a Refine round is over and the next feedback is typed and accepted
C9_Witness ==
    /\ Len(tcRevisions) = 2
    /\ Last(tcRevisions).by = "Refine"
    /\ generateCalls = <<>>
    /\ ~IsBlank(feedback)
    /\ RefineTestCasesAccepted

\* the provider calls the call in progress has made
ProviderCalls == produceCalls + critiqueCalls + reviseCalls

GenerateRetried(i) ==
    /\ Len(generateCalls') = Len(generateCalls)
    /\ \E j \in 1..Len(generateCalls') : generateCalls'[j].body = generateCalls[i].body
ParseRetried(i) ==
    /\ Len(parseCalls') = Len(parseCalls)
    /\ \E j \in 1..Len(parseCalls') : parseCalls'[j].body = parseCalls[i].body

\* C12: a call that fails on a transient error (rejected fetch, time-out,
\* non-OK answer) is either sent again or, once no attempt is left, surfaced
\* to the user as an error message.
C12_TransientErrorRetriedThenSurfaced ==
    [][/\ \A i \in 1..MaxInFlight, res \in GenerateResponses :
            GenerateFailed(res) /\ generateTestCasesSettle(i, res)
                => GenerateRetried(i) \/ status' \in ErrorStatuses
       /\ \A i \in 1..MaxInFlight, res \in ParseResponses :
            ParseFailed(res) /\ parseRequirementsSettle(i, res)
                => ParseRetried(i) \/ status' \in ErrorStatuses]_vars

\* the test-case list a downstream request carries
Carried(call) == call.body.test_cases

\* C13: every export request (CSV, Excel, JSON, JIRA) and every automation
\* request carries, when it is issued, the test-case list held at that
\* moment (the one the latest applied Generate/Refine answer put there, never
\* an empty one); a later change of the held list leaves the requests that
\* are outstanding as they are.
C13_DownstreamCarriesLatest ==
    [][/\ Len(exportCalls') > Len(exportCalls) =>
            /\ Carried(Last(exportCalls')) = JSONstringify(testCases)
            /\ Len(testCases) > 0
       /\ Len(automationCalls') > Len(automationCalls) =>
            /\ Carried(Last(automationCalls')) = JSONstringify(testCases)
            /\ Len(testCases) > 0
       /\ testCases' # testCases =>
            /\ exportCalls' = exportCalls
            /\ automationCalls' = automationCalls]_vars

\* after a Refine replaced [TC-1] by [TC-1, TC-2], an export and an
\* automation request are outstanding that both carry the refined list
C13_Witness ==
    /\ Len(tcRevisions) = 2
    /\ testCases = <<"TC-1", "TC-2">>
    /\ Len(exportCalls) = 1
    /\ Carried(exportCalls[1]) = JSONstringify(<<"TC-1", "TC-2">>)
    /\ Len(automationCalls) = 1
    /\ Carried(automationCalls[1]) = JSONstringify(<<"TC-1", "TC-2">>)

\* C14: two Refine calls served at once against the same prior revision do
\* not interfere: a step of one call leaves the other call as it is, each
\* call that ends with a revision ends with its own answer at version
\* prior.version + 1 of the prior it carried, and a call fails only on a
\* provider error of its own.
C14_ConcurrentRefinesIndependent ==
    /\ [](\A c \in Callers :
            /\ serverCalls[c].state = "done" =>
                  /\ serverCalls[c].result.version = serverCalls[c].prior.version + 1
                  /\ serverCalls[c].result.payload = serverCalls[c].answer
            /\ serverCalls[c].state = "failed" => serverCalls[c].error \in ProviderErrors)
    /\ [][\A c, d \in Callers :
            (c # d /\ serverCalls'[c] # serverCalls[c]) => serverCalls'[d] = serverCalls[d]]_vars

\* both calls carried the same prior revision and both ended with a sibling
\* revision of their own at the next version
C14_Witness ==
    /\ \A c \in Callers : serverCalls[c].state = "done"
    /\ serverCalls["first"].prior = serverCalls["second"].prior
    /\ serverCalls["first"].result.version = serverCalls["second"].result.version
    /\ serverCalls["first"].result.payload # serverCalls["second"].result.payload

\* C15: the client serializes its calls per artifact kind: at most one
\* test-case Generate/Refine request and at most one requirements
\* parse/refine request is outstanding at any moment, each under its busy
\* flag, so an answer is always applied before the next call of its kind
\* is issued.
C15_OneCallPerKind ==
    /\ Len(generateCalls) <= 1
    /\ Len(parseCalls) <= 1
    /\ generateCalls # <<>> <=> isGenerating
    /\ parseCalls # <<>> <=> isParsing

\* a test-case Refine and a requirements refine outstanding side by side
C15_Witness ==
    /\ Len(generateCalls) = 1
    /\ generateCalls[1].withFeedback
    /\ Len(parseCalls) = 1
    /\ parseCalls[1].withFeedback
    /\ Len(generateCalls) < MaxInFlight

\* C16: every started parse, generate or export operation clears its busy
\* flag when its request settles, whatever the outcome (answer, non-OK
\* answer, rejection): a flag is set only while a request of its kind is
\* outstanding, the step that settles the request clears it, and so, every
\* request settling, a flag that is set is eventually clear.
C16_BusyFlagsCleared ==
    /\ [](/\ isParsing => parseCalls # <<>>
          /\ isGenerating => generateCalls # <<>>
          /\ isExporting => exportCalls # <<>>)
    /\ [][/\ Len(parseCalls') < Len(parseCalls) => ~isParsing'
          /\ Len(generateCalls') < Len(generateCalls) => ~isGenerating'
          /\ Len(exportCalls') < Len(exportCalls) => ~isExporting']_vars
    /\ isParsing ~> ~isParsing
    /\ isGenerating ~> ~isGenerating
    /\ isExporting ~> ~isExporting

\* a JIRA export whose fetch was rejected (the status still shows the
\* progress message) and a parse and a generate that are over: no flag is set
C16_Witness ==
    /\ status = "Exporting to JIRA..."
    /\ exportCalls = <<>>
    /\ ~isExporting
    /\ ~isParsing
    /\ ~isGenerating
    /\ Len(tcRevisions) >= 1

\* C17: an export request (CSV, Excel, JSON or JIRA) is issued only while
\* the held test-case list is not empty and no other export is outstanding,
\* however the Export tab was reached; at most one export request is
\* outstanding at a time.
C17_ExportOnlyWithTestCases ==
    /\ [](Len(exportCalls) <= 1)
    /\ [][Len(exportCalls') > Len(exportCalls) =>
            /\ Len(testCases) > 0
            /\ exportCalls = <<>>
            /\ ~isExporting
            /\ activeTab = 4]_vars

\* a JIRA export outstanding on the Export tab, the other export buttons
\* disabled meanwhile
C17_Witness ==
    /\ activeTab = 4
    /\ Len(exportCalls) = 1
    /\ exportCalls[1].target = "jira"
    /\ ExportDisabled
    /\ Len(testCases) > 0

\* C18: the pending feedback text is cleared exactly when a refine call
\* completes successfully: a refine call that fails leaves the text as it
\* is, a plain Generate or parse call never clears it, and a refine call
\* that succeeds empties it.
C18_FeedbackClearedOnlyOnSuccess ==
    [][/\ \A i \in 1..Len(generateCalls), res \in GenerateResponses :
            generateTestCasesSettle(i, res) =>
                IF generateCalls[i].withFeedback /\ ~GenerateFailed(res)
                THEN feedback' = <<>>
                ELSE feedback' = feedback
       /\ \A i \in 1..Len(parseCalls), res \in ParseResponses :
            parseRequirementsSettle(i, res) =>
                IF parseCalls[i].withFeedback /\ ~ParseFailed(res)
                THEN reqFeedback' = <<>>
                ELSE reqFeedback' = reqFeedback]_vars

====
